---------------------------- MODULE Spec2Model ----------------------------
(***************************************************************************)
(* A model of augment_markdown.py: the heading classifier                  *)
(* (check_header_patterns), the level resolvers                            *)
(* (determine_header_level_by_context, determine_bold_header_level), the   *)
(* metadata block builder (build_header_block) and the line-by-line        *)
(* rewriter (process_markdown).                                            *)
(*                                                                         *)
(* Python strings are TLA+ strings; a character is a string of length 1.   *)
(* Python's 0-based indexes are kept for the cursors i and j, so that      *)
(* lines[j] of the source is lines[j + 1] here.                            *)
(***************************************************************************)
EXTENDS Integers, Sequences, FiniteSets, TLC

VARIABLES
    md_text,      \* process_markdown's argument md_text
    rel_path,     \* process_markdown's argument rel_path
    file_stem,    \* process_markdown's argument file_stem
    lines,        \* md_text.splitlines()
    out,          \* the list of output pieces
    breadcrumb,   \* the breadcrumb stack
    doc_title,    \* the document title
    i,            \* the cursor of the main loop (0-based)
    pc,           \* "loop" while in the while loop, "done" once returned
    result,       \* the returned string (once pc = "done")
    levels,       \* history: the local `level` of each iteration (0: no heading)
    pass,         \* which application of process_markdown is running (1 or 2)
    prev_result,  \* the string returned by the previous application
    arg,          \* the arguments of a direct call of one of the pure helpers
    ret,          \* what that call returned
    frames        \* the locals of each of several calls of process_markdown
                  \* that are in progress at once

vars == <<md_text, rel_path, file_stem, lines, out, breadcrumb, doc_title, i,
          pc, result, levels, pass, prev_result, arg, ret, frames>>

procVars == <<md_text, rel_path, file_stem, lines, out, breadcrumb, doc_title,
              i, pc, result, levels, pass, prev_result, frames>>

-----------------------------------------------------------------------------
(* Characters and the str methods the program uses.                        *)

\* s[a-1:b] and s[k-1:k] of Python: empty where out of range
Slice(s, a, b) ==
    LET lo == IF a < 1 THEN 1 ELSE a
        hi == IF b > Len(s) THEN Len(s) ELSE b
    IN  IF lo > hi THEN "" ELSE SubSeq(s, lo, hi)

At(s, k) == Slice(s, k, k)

UpperStr == "ABCDEFGHIJKLMNOPQRSTUVWXYZ"
LowerStr == "abcdefghijklmnopqrstuvwxyz"
DigitStr == "0123456789"
\* The printable ASCII characters (and the tab) in code-point order; the
\* backquote cannot be written in a TLA+ string and is left out.
AsciiOrder ==
    "\t !\"#$%&'()*+,-./0123456789:;<=>?@ABCDEFGHIJKLMNOPQRSTUVWXYZ[\\]^_abcdefghijklmnopqrstuvwxyz{|}~"

CharsOf(s) == { At(s, k) : k \in 1..Len(s) }

Upper == CharsOf(UpperStr)
Lower == CharsOf(LowerStr)
Digit == CharsOf(DigitStr)
Letter == Upper \cup Lower
\* The whitespace a line can hold: splitlines() has removed the line breaks.
Whitespace == {" ", "\t"}

IsSpace(c) == c \in Whitespace

Ord(c) == CHOOSE k \in 1..Len(AsciiOrder) : At(AsciiOrder, k) = c

\* str.lower() of one character
LowerChar(c) ==
    IF c \in Upper
    THEN At(LowerStr, CHOOSE k \in 1..Len(UpperStr) : At(UpperStr, k) = c)
    ELSE c

RECURSIVE ToLower(_)
ToLower(s) ==
    IF s = "" THEN ""
    ELSE LowerChar(At(s, 1)) \o ToLower(Slice(s, 2, Len(s)))

StartsWith(s, p) == Len(s) >= Len(p) /\ Slice(s, 1, Len(p)) = p

\* Python's (p in s) for strings
Contains(s, p) ==
    \E k \in 1..(Len(s) - Len(p) + 1) : Slice(s, k, k + Len(p) - 1) = p

SetMin(S) == CHOOSE x \in S : \A y \in S : x <= y
SetMax(S) == CHOOSE x \in S : \A y \in S : x >= y

\* The number of whitespace characters at the start of s from position k
\* on, and at the end of s from position k back
RECURSIVE LeadingSpace(_, _)
LeadingSpace(s, k) ==
    IF k <= Len(s) /\ IsSpace(At(s, k)) THEN 1 + LeadingSpace(s, k + 1) ELSE 0

RECURSIVE TrailingSpace(_, _)
TrailingSpace(s, k) ==
    IF k >= 1 /\ IsSpace(At(s, k)) THEN 1 + TrailingSpace(s, k - 1) ELSE 0

\* str.strip()
Strip(s) ==
    LET lead == LeadingSpace(s, 1)
    IN  IF lead = Len(s) THEN ""
        ELSE Slice(s, lead + 1, Len(s) - TrailingSpace(s, Len(s)))

\* str.rstrip(':')
RECURSIVE RStripColon(_)
RStripColon(s) ==
    IF s # "" /\ At(s, Len(s)) = ":"
    THEN RStripColon(Slice(s, 1, Len(s) - 1))
    ELSE s

\* The number of characters of s from position k on that satisfy the class
\* test, up to the first one that does not (a greedy run of a regex class).
RECURSIVE Run(_, _, _)
Run(s, k, class) ==
    IF k <= Len(s) /\ At(s, k) \in class THEN 1 + Run(s, k + 1, class) ELSE 0

AllIn(s, class) == \A k \in 1..Len(s) : At(s, k) \in class

\* str.split(): the maximal runs of non-whitespace characters
RECURSIVE SplitFrom(_, _)
SplitFrom(s, k) ==
    LET start == k + Run(s, k, Whitespace)
        stop  == SetMin({ e \in start..(Len(s) + 1) :
                            e = Len(s) + 1 \/ IsSpace(At(s, e)) })
    IN  IF start > Len(s) THEN <<>>
        ELSE <<Slice(s, start, stop - 1)>> \o SplitFrom(s, stop)

Split(s) == SplitFrom(s, 1)

\* sep.join(seq)
RECURSIVE Join(_, _)
Join(seq, sep) ==
    IF seq = <<>> THEN ""
    ELSE IF Len(seq) = 1 THEN seq[1]
    ELSE seq[1] \o sep \o Join(Tail(seq), sep)

\* str.splitlines(), for "\n" line breaks: no piece for the empty string
\* that follows a final line break.
RECURSIVE SplitLines(_)
SplitLines(s) ==
    IF s = "" THEN <<>>
    ELSE LET nls == { k \in 1..Len(s) : At(s, k) = "\n" }
         IN  IF nls = {} THEN <<s>>
             ELSE <<Slice(s, 1, SetMin(nls) - 1)>>
                  \o SplitLines(Slice(s, SetMin(nls) + 1, Len(s)))

\* The order of str comparison: by code point, a proper prefix first.
RECURSIVE StrLess(_, _)
StrLess(a, b) ==
    IF b = "" THEN FALSE
    ELSE IF a = "" THEN TRUE
    ELSE IF At(a, 1) # At(b, 1) THEN Ord(At(a, 1)) < Ord(At(b, 1))
    ELSE StrLess(Slice(a, 2, Len(a)), Slice(b, 2, Len(b)))

\* sorted(S) for a set of strings
RECURSIVE Sorted(_)
Sorted(S) ==
    IF S = {} THEN <<>>
    ELSE LET m == CHOOSE x \in S : \A y \in S \ {x} : StrLess(x, y)
         IN  <<m>> \o Sorted(S \ {m})

\* The characters of s, each one in `from` replaced by `to`.
RECURSIVE ReplaceChars(_, _, _)
ReplaceChars(s, from, to) ==
    IF s = "" THEN ""
    ELSE (IF At(s, 1) \in from THEN to ELSE At(s, 1))
         \o ReplaceChars(Slice(s, 2, Len(s)), from, to)

\* re.sub of a literal pattern by the empty string
RECURSIVE RemoveAll(_, _)
RemoveAll(s, p) ==
    IF Len(s) < Len(p) THEN s
    ELSE IF StartsWith(s, p) THEN RemoveAll(Slice(s, Len(p) + 1, Len(s)), p)
    ELSE At(s, 1) \o RemoveAll(Slice(s, 2, Len(s)), p)

\* '#' * level
RECURSIVE Hashes(_)
Hashes(n) == IF n <= 0 THEN "" ELSE "#" \o Hashes(n - 1)

-----------------------------------------------------------------------------
(* The six patterns.  Each operator gives the groups of the match, or      *)
(* NoMatch.  The lines matched hold no line break.                         *)

NoMatch == [ok |-> FALSE]

\* HEADING_RE  ^(#{1,6})\s+(.*)$
HEADING_RE(line) ==
    LET n == Run(line, 1, {"#"})
        w == Run(line, n + 1, Whitespace)
    IN  IF n >= 1 /\ n <= 6 /\ w >= 1
        THEN [ok |-> TRUE, g1 |-> Slice(line, 1, n),
              g2 |-> Slice(line, n + w + 1, Len(line))]
        ELSE NoMatch

\* BOLD_HEADING_RE  ^\*\*([^*]+)\*\*\s*$
BOLD_HEADING_RE(line) ==
    LET stars == { k \in 3..Len(line) : At(line, k) = "*" }
        p == IF stars = {} THEN 0 ELSE SetMin(stars)
    IN  IF /\ StartsWith(line, "**")
           /\ p >= 4
           /\ At(line, p + 1) = "*"
           /\ AllIn(Slice(line, p + 2, Len(line)), Whitespace)
        THEN [ok |-> TRUE, g1 |-> Slice(line, 3, p - 1)]
        ELSE NoMatch

\* COLON_HEADING_RE  ^([A-Z][a-zA-Z\s]{3,}):\s*$
COLON_HEADING_RE(line) ==
    LET colons == { k \in 1..Len(line) : At(line, k) = ":" }
        p == IF colons = {} THEN 0 ELSE SetMin(colons)
    IN  IF /\ p >= 5
           /\ At(line, 1) \in Upper
           /\ AllIn(Slice(line, 2, p - 1), Letter \cup Whitespace)
           /\ AllIn(Slice(line, p + 1, Len(line)), Whitespace)
        THEN [ok |-> TRUE, g1 |-> Slice(line, 1, p - 1)]
        ELSE NoMatch

\* DATE_HEADING_RE  ^(20\d{2}\s+\d{2}\s+\d{2})$
DATE_HEADING_RE(line) ==
    LET w1 == Run(line, 5, Whitespace)
        w2 == Run(line, 7 + w1, Whitespace)
    IN  IF /\ StartsWith(line, "20")
           /\ At(line, 3) \in Digit /\ At(line, 4) \in Digit
           /\ w1 >= 1
           /\ At(line, 5 + w1) \in Digit /\ At(line, 6 + w1) \in Digit
           /\ w2 >= 1
           /\ At(line, 7 + w1 + w2) \in Digit
           /\ At(line, 8 + w1 + w2) \in Digit
           /\ Len(line) = 8 + w1 + w2
        THEN [ok |-> TRUE, g1 |-> line]
        ELSE NoMatch

\* NUMBERED_HEADING_RE  ^(\d{1,2})\.\s+([A-Z][a-zA-Z\s]{3,})$
NUMBERED_HEADING_RE(line) ==
    LET d == Run(line, 1, Digit)
        w == Run(line, d + 2, Whitespace)
        t == d + 2 + w          \* where group 2 starts
    IN  IF /\ d >= 1 /\ d <= 2
           /\ At(line, d + 1) = "."
           /\ w >= 1
           /\ At(line, t) \in Upper
           /\ Len(line) - t >= 3
           /\ AllIn(Slice(line, t + 1, Len(line)), Letter \cup Whitespace)
        THEN [ok |-> TRUE, g1 |-> Slice(line, 1, d),
              g2 |-> Slice(line, t, Len(line))]
        ELSE NoMatch

\* ALLCAPS_HEADING_RE  ^([A-Z][A-Z\s]{8,})$
ALLCAPS_HEADING_RE(line) ==
    IF /\ Len(line) >= 9
       /\ At(line, 1) \in Upper
       /\ AllIn(Slice(line, 2, Len(line)), Upper \cup Whitespace)
    THEN [ok |-> TRUE, g1 |-> line]
    ELSE NoMatch

-----------------------------------------------------------------------------
(* check_header_patterns                                                   *)

common_non_headers == {"TASK", "TODO", "NOTE", "IMPORTANT", "WARNING", "ERROR"}

\* (None, None, None)
NoHeader == [kind |-> "none", text |-> "", hashes |-> 0]

Header(kind, text, hashes) == [kind |-> kind, text |-> text, hashes |-> hashes]

\* The filter of the colon branch
ColonAccepts(text) ==
    Len(text) >= 5 /\ ~StartsWith(ToLower(text), "http")

\* The filter of the numbered branch
NumberedAccepts(text) == Len(text) >= 5

\* The filter of the allcaps branch
AllcapsAccepts(text) ==
    /\ ~(\E word \in common_non_headers : Contains(text, word))
    /\ Len(Split(text)) <= 6

\* check_header_patterns with the colon branch returning on the bare match
check_header_patterns_unfiltered(line) ==
    LET md  == HEADING_RE(line)
        bd  == BOLD_HEADING_RE(line)
        co  == COLON_HEADING_RE(line)
        da  == DATE_HEADING_RE(line)
        nu  == NUMBERED_HEADING_RE(line)
        ac  == ALLCAPS_HEADING_RE(line)
    IN  IF md.ok THEN Header("markdown", Strip(md.g2), Len(md.g1))
        ELSE IF bd.ok THEN Header("bold", Strip(bd.g1), 0)
        ELSE IF co.ok THEN Header("colon", Strip(co.g1), 0)
        ELSE IF da.ok THEN Header("date", Strip(da.g1), 0)
        ELSE IF nu.ok /\ NumberedAccepts(Strip(nu.g2))
             THEN Header("numbered", nu.g1 \o ". " \o Strip(nu.g2), 0)
        ELSE IF ac.ok /\ AllcapsAccepts(Strip(ac.g1))
             THEN Header("allcaps", Strip(ac.g1), 0)
        ELSE NoHeader

\* Returns the pattern type, the heading text and, for a markdown heading,
\* the length of group 1 of the match (the only use made of the match).
check_header_patterns(line) ==
    LET md  == HEADING_RE(line)
        bd  == BOLD_HEADING_RE(line)
        co  == COLON_HEADING_RE(line)
        da  == DATE_HEADING_RE(line)
        nu  == NUMBERED_HEADING_RE(line)
        ac  == ALLCAPS_HEADING_RE(line)
    IN  IF md.ok THEN Header("markdown", Strip(md.g2), Len(md.g1))
        ELSE IF bd.ok THEN Header("bold", Strip(bd.g1), 0)
        ELSE IF co.ok /\ ColonAccepts(Strip(co.g1))
             THEN Header("colon", Strip(co.g1), 0)
        ELSE IF da.ok THEN Header("date", Strip(da.g1), 0)
        ELSE IF nu.ok /\ NumberedAccepts(Strip(nu.g2))
             THEN Header("numbered", nu.g1 \o ". " \o Strip(nu.g2), 0)
        ELSE IF ac.ok /\ AllcapsAccepts(Strip(ac.g1))
             THEN Header("allcaps", Strip(ac.g1), 0)
        ELSE NoHeader

-----------------------------------------------------------------------------
(* The level resolvers                                                     *)

Min(a, b) == IF a <= b THEN a ELSE b

meeting_keywords ==
    {"meeting", "discussion", "call", "update", "task", "notes", "todo"}

\* determine_header_level_by_context with the cap of the colon branch
\* copied into the numbered branch
determine_header_level_capped_at_3(bc, pattern_type, text) ==
    IF pattern_type = "date" THEN (IF bc = <<>> THEN 1 ELSE 2)
    ELSE IF pattern_type = "colon"
    THEN (IF bc = <<>> THEN 2 ELSE Min(Len(bc) + 1, 3))
    ELSE IF pattern_type = "numbered"
    THEN (IF bc # <<>> THEN Min(Len(bc) + 1, 3) ELSE 2)
    ELSE IF pattern_type = "allcaps" THEN (IF bc = <<>> THEN 1 ELSE 2)
    ELSE 2

determine_header_level_by_context(bc, pattern_type, text) ==
    IF pattern_type = "date" THEN (IF bc = <<>> THEN 1 ELSE 2)
    ELSE IF pattern_type = "colon"
    THEN IF \E keyword \in meeting_keywords : Contains(ToLower(text), keyword)
         THEN (IF bc # <<>> THEN Min(Len(bc) + 1, 3) ELSE 2)
         ELSE (IF bc = <<>> THEN 2 ELSE Min(Len(bc) + 1, 3))
    ELSE IF pattern_type = "numbered"
    THEN (IF bc # <<>> THEN Min(Len(bc) + 1, 4) ELSE 2)
    ELSE IF pattern_type = "allcaps" THEN (IF bc = <<>> THEN 1 ELSE 2)
    ELSE 2

\* The for loop of determine_bold_header_level, from j (0-based) up to but
\* not including stop: the final value of has_indented_content.
RECURSIVE BoldLookahead(_, _, _)
BoldLookahead(ls, j, stop) ==
    IF j >= stop THEN FALSE
    ELSE LET line == Strip(ls[j + 1])
         IN  IF line = "" THEN BoldLookahead(ls, j + 1, stop)
             ELSE IF \/ StartsWith(line, "- ")
                     \/ StartsWith(line, "* ")
                     \/ StartsWith(line, "  ")
                  THEN TRUE
             ELSE IF StartsWith(line, "**") \/ StartsWith(line, "#")
                  THEN FALSE
             ELSE BoldLookahead(ls, j + 1, stop)

\* determine_bold_header_level looking ahead to the end of the document
determine_bold_header_level_unbounded(bc, ls, current_index) ==
    IF bc = <<>> THEN 1
    ELSE IF BoldLookahead(ls, current_index + 1, Len(ls))
         THEN Min(Len(bc) + 1, 3)
         ELSE 2

determine_bold_header_level(bc, ls, current_index) ==
    IF bc = <<>> THEN 1
    ELSE IF BoldLookahead(ls, current_index + 1,
                          Min(current_index + 10, Len(ls)))
         THEN Min(Len(bc) + 1, 3)
         ELSE 2

-----------------------------------------------------------------------------
(* The metadata block                                                      *)

AliasPunctuation ==
    {"(", ")", "[", "]", "{", "}", ":", ",", ".", "\"", "'", "*", "_"}

TakeFirst(seq, n) == SubSeq(seq, 1, Min(n, Len(seq)))

guess_aliases_from_heading(text) ==
    LET base  == RemoveAll(ReplaceChars(text, AliasPunctuation, " "),
                           "{.underline}")
        terms == SelectSeq(Split(base), LAMBDA t : Len(t) >= 3)
    IN  TakeFirst(terms, 5)

build_header_block(title, path, bc, aliases) ==
    LET breadcrumb_str == IF bc # <<>> THEN Join(bc, " > ") ELSE title
        kept == { aliases[k] : k \in { n \in 1..Len(aliases) : aliases[n] # "" } }
        aliases_str == Slice(Join(Sorted(kept), ", "), 1, 120)
        fields == << "[DocTitle: " \o title \o "]",
                     "[Path: " \o path \o "]",
                     "[Section: " \o breadcrumb_str \o "]" >>
                  \o (IF aliases_str # ""
                      THEN << "[Aliases: " \o aliases_str \o "]" >>
                      ELSE << >>)
    IN  Join(fields, "\n") \o "\n\n"

convert_to_proper_header(text, level, pattern_type) ==
    IF pattern_type = "colon"
    THEN Hashes(level) \o " " \o RStripColon(text)
    ELSE Hashes(level) \o " " \o text

-----------------------------------------------------------------------------
(* One iteration of the loop of process_markdown                           *)

\* ResolveLevel with the resolvers handed an empty breadcrumb
ResolveLevelNoContext(h, bc, ls, idx) ==
    IF h.kind = "markdown" THEN h.hashes
    ELSE IF h.kind = "bold" THEN determine_bold_header_level(<< >>, ls, idx)
    ELSE determine_header_level_by_context(<< >>, h.kind, h.text)

\* The level of a classified line (the if/elif/else on pattern_type)
ResolveLevel(h, bc, ls, idx) ==
    IF h.kind = "markdown" THEN h.hashes
    ELSE IF h.kind = "bold" THEN determine_bold_header_level(bc, ls, idx)
    ELSE determine_header_level_by_context(bc, h.kind, h.text)

\* NewDocTitle without the fallback for a heading that has no text
NewDocTitleNoFallback(level, heading_text, title) ==
    IF level = 1 THEN heading_text ELSE title

\* NewDocTitle without the test of the level
NewDocTitleAnyLevel(level, heading_text, title) ==
    IF heading_text # "" THEN heading_text ELSE title

\* doc_title after the heading: heading_text or doc_title, at level 1 only
NewDocTitle(level, heading_text, title) ==
    IF level = 1 /\ heading_text # "" THEN heading_text ELSE title

\* PopTo with an if for the while: at most one element popped
PopOne(bc, level) ==
    IF Len(bc) >= level THEN SubSeq(bc, 1, Len(bc) - 1) ELSE bc

\* PopTo emptying the stack as soon as it is as deep as the level
PopAll(bc, level) == IF Len(bc) >= level THEN << >> ELSE bc

\* while len(breadcrumb) >= level: breadcrumb.pop()
RECURSIVE PopTo(_, _)
PopTo(bc, level) ==
    IF Len(bc) >= level THEN PopTo(SubSeq(bc, 1, Len(bc) - 1), level) ELSE bc

\* NewBreadcrumb with a level-1 heading pushed on the stack as it is
NewBreadcrumbKeepsStack(bc, level, heading_text, title) ==
    IF level = 1
    THEN Append(bc, IF heading_text # "" THEN heading_text ELSE title)
    ELSE Append(PopTo(bc, level), heading_text)

\* breadcrumb after the heading; title is doc_title as just updated
NewBreadcrumb(bc, level, heading_text, title) ==
    IF level = 1
    THEN << IF heading_text # "" THEN heading_text ELSE title >>
    ELSE Append(PopTo(bc, level), heading_text)

\* ProperHeader without the exception for markdown headings: every header
\* line is rendered anew from its level and text.
ProperHeaderRendered(line, h, level) ==
    convert_to_proper_header(h.text, level, h.kind)

\* The header line appended to out
ProperHeader(line, h, level) ==
    IF h.kind = "markdown" THEN line
    ELSE convert_to_proper_header(h.text, level, h.kind)

\* The peek past blank lines: the first non-blank line after idx, stripped,
\* or "" when there is none.
RECURSIVE NextNonEmpty(_, _)
NextNonEmpty(ls, j) ==
    IF j >= Len(ls) THEN ""
    ELSE IF Strip(ls[j + 1]) # "" THEN Strip(ls[j + 1])
    ELSE NextNonEmpty(ls, j + 1)

\* AlreadyInjected looking at the one line after the heading only
AlreadyInjectedNextLineOnly(ls, idx) ==
    idx + 1 < Len(ls) /\ StartsWith(Strip(ls[idx + 2]), "[DocTitle:")

AlreadyInjected(ls, idx) == StartsWith(NextNonEmpty(ls, idx + 1), "[DocTitle:")

\* HeadingOutput with the block built from the breadcrumb without the
\* heading just put on it
HeadingOutputParentSection(line, h, level, title, path, bc, injected) ==
    << ProperHeader(line, h, level) >>
    \o (IF injected THEN << >>
        ELSE << build_header_block(title, path, SubSeq(bc, 1, Len(bc) - 1),
                                   guess_aliases_from_heading(h.text)) >>)

\* What the iteration appends to out for a classified line
HeadingOutput(line, h, level, title, path, bc, injected) ==
    << ProperHeader(line, h, level) >>
    \o (IF injected THEN << >>
        ELSE << build_header_block(title, path, bc,
                                   guess_aliases_from_heading(h.text)) >>)

\* PlainOutput that leaves blank lines out
PlainOutputSkipsBlank(line) == IF line = "" THEN << >> ELSE << line >>

\* What the iteration appends to out for any other line
PlainOutput(line) == << line >>

\* The returned string
ReturnValue(o) ==
    Join(o, "\n") \o (IF o = <<>> \/ o[Len(o)] # "" THEN "\n" ELSE "")

-----------------------------------------------------------------------------
(* process_markdown, applied to a document and then to its own output      *)

MaxLines == 3      \* the longest input document, in lines

\* The lines the input documents are made of.  A document draws its lines
\* from one pool: markdown headings (two of level 1, one of them
\* with two spaces after the '#'; one without text; one that skips levels)
\* with a colon label and a list item, or one heading of each of the other
\* kinds under a top heading.
MarkdownPool ==
    { "", "# Top", "#  Two", "# ", "### Deep", "Meeting:", "- item" }
KindsPool ==
    { "", "# Top", "**Bold**", "2024 03 15", "1. Intro", "PROJECT PLANS" }
\* a heading, a blank line, and the first field of a block, at the margin
\* and indented
GuardPool ==
    { "", "# Top", "[DocTitle: T]", " [DocTitle: T]" }

SeqsUpTo(S, n) == UNION { [1..k -> S] : k \in 0..n }

\* the lines of the documents that end in a line break
TailPool == { "", "# Top" }

\* Every document of at most MaxLines lines of one pool, without a final
\* line break (splitlines() makes the same lines of a text with and without
\* it), and those of TailPool with one.
Documents ==
    { Join(ls, "\n") :
        ls \in SeqsUpTo(MarkdownPool, MaxLines) \cup SeqsUpTo(KindsPool, MaxLines)
                  \cup SeqsUpTo(GuardPool, MaxLines) }
    \cup { Join(ls, "\n") \o "\n" : ls \in SeqsUpTo(TailPool, MaxLines) }

NoCall == [fn |-> "none"]
NoReturn == [done |-> FALSE]

\* The entry of process_markdown: the state before the first iteration.
Enter(text) ==
    /\ md_text = text
    /\ lines = SplitLines(text)
    /\ out = << >>
    /\ breadcrumb = << >>
    /\ doc_title = file_stem
    /\ i = 0
    /\ pc = "loop"
    /\ result = ""
    /\ levels = << >>

Init ==
    /\ file_stem = "notes"
    /\ rel_path = "notes.md"
    /\ \E text \in Documents : Enter(text)
    /\ pass = 1
    /\ prev_result = ""
    /\ arg = NoCall
    /\ ret = NoReturn
    /\ frames = << >>

\* An iteration on a line that check_header_patterns classifies
HeadingStep ==
    /\ pc = "loop"
    /\ i < Len(lines)
    /\ LET line  == lines[i + 1]
           h     == check_header_patterns(line)
           level == ResolveLevel(h, breadcrumb, lines, i)
           title == NewDocTitle(level, h.text, doc_title)
           bc    == NewBreadcrumb(breadcrumb, level, h.text, title)
       IN  /\ h.kind # "none"
           /\ doc_title' = title
           /\ breadcrumb' = bc
           /\ out' = out \o HeadingOutput(line, h, level, title, rel_path, bc,
                                          AlreadyInjected(lines, i))
           /\ levels' = Append(levels, level)
    /\ i' = i + 1
    /\ UNCHANGED <<md_text, rel_path, file_stem, lines, pc, result, pass,
                   prev_result, arg, ret, frames>>

\* An iteration on any other line
PlainStep ==
    /\ pc = "loop"
    /\ i < Len(lines)
    /\ check_header_patterns(lines[i + 1]).kind = "none"
    /\ out' = out \o PlainOutput(lines[i + 1])
    /\ levels' = Append(levels, 0)
    /\ i' = i + 1
    /\ UNCHANGED <<md_text, rel_path, file_stem, lines, breadcrumb, doc_title,
                   pc, result, pass, prev_result, arg, ret, frames>>

\* The loop has ended: the return statement
Return ==
    /\ pc = "loop"
    /\ i >= Len(lines)
    /\ result' = ReturnValue(out)
    /\ pc' = "done"
    /\ UNCHANGED <<md_text, rel_path, file_stem, lines, out, breadcrumb,
                   doc_title, i, levels, pass, prev_result, arg, ret, frames>>

\* process_markdown applied to what it returned, with the same rel_path and
\* file_stem: the second application
Reapply ==
    /\ pc = "done"
    /\ pass = 1
    /\ pass' = 2
    /\ prev_result' = result
    /\ md_text' = result
    /\ lines' = SplitLines(result)
    /\ out' = << >>
    /\ breadcrumb' = << >>
    /\ doc_title' = file_stem
    /\ i' = 0
    /\ pc' = "loop"
    /\ result' = ""
    /\ levels' = << >>
    /\ UNCHANGED <<rel_path, file_stem, arg, ret, frames>>

Next == HeadingStep \/ PlainStep \/ Return \/ Reapply

Spec == Init /\ [][Next]_vars

TypeOK ==
    /\ pc \in {"loop", "done"}
    /\ i \in 0..Len(lines)
    /\ Len(levels) = i
    /\ pass \in {1, 2}

-----------------------------------------------------------------------------
(* Direct calls of the pure helpers, on inputs drawn from bounded sets     *)

MaxTokens == 3     \* the longest classified line, in tokens
MaxWords == 7      \* the longest all-caps line, in words
MaxFill == 10      \* the most lines between a bold line and the next marker
MaxDepth == 4      \* the deepest breadcrumb handed to a level resolver

\* A line is a concatenation of tokens: they build a line of every kind, the
\* lines each filter rejects and lines no pattern matches.
ClassifyTokens ==
    { "# ", "#", "**", "Abc", "de", "Http", ":", " ", "2024 03 15", "1. ",
      "NOTEBOOK", "TASK", "PLANS" }

RECURSIVE Concat(_)
Concat(seq) == IF seq = <<>> THEN "" ELSE seq[1] \o Concat(Tail(seq))

TokenLines == { Concat(ts) : ts \in SeqsUpTo(ClassifyTokens, MaxTokens) }

\* All-caps lines of one to MaxWords words
CapsWords == { "AB", "NOTEBOOK", "TODO" }
WordLines ==
    { Join(ws, " ") : ws \in SeqsUpTo(CapsWords, MaxWords) \ { << >> } }

ClassifyCalls ==
    { [fn |-> "check_header_patterns", line |-> l] :
        l \in TokenLines \cup WordLines }

\* A bold line, then some filler lines, then one marker line
Fillers == { "", "text", "  indented" }
Markers ==
    { "- item", "* item", "  - nested", "  indented", "text", "**Next**",
      "# Next", "#tag" }

Repeat(x, n) == [k \in 1..n |-> x]

Breadcrumbs == { Repeat("S", d) : d \in 0..MaxDepth }

BoldCalls ==
    { [fn |-> "determine_bold_header_level",
       breadcrumb |-> bc,
       lines |-> << "**Bold**" >> \o Repeat(f, n) \o << m >>,
       current_index |-> 0] :
        bc \in Breadcrumbs, f \in Fillers, n \in 0..MaxFill, m \in Markers }

\* The kinds handed to determine_header_level_by_context, each with a text
\* that holds one of the meeting keywords and one that holds none
ContextCalls ==
    { [fn |-> "determine_header_level_by_context",
       breadcrumb |-> bc, pattern_type |-> kind, text |-> text] :
        bc \in Breadcrumbs,
        kind \in {"date", "colon", "numbered", "allcaps"},
        text \in {"Meeting", "Todo list", "Agenda", "2024 03 15",
                  "1. Intro", "3. Status update", "PROJECT PLANS"} }

\* No document is being processed.
Idle ==
    /\ md_text = ""
    /\ rel_path = ""
    /\ file_stem = ""
    /\ lines = << >>
    /\ out = << >>
    /\ breadcrumb = << >>
    /\ doc_title = ""
    /\ i = 0
    /\ pc = "idle"
    /\ result = ""
    /\ levels = << >>
    /\ pass = 1
    /\ prev_result = ""

InitCalls ==
    /\ Idle
    /\ frames = << >>
    /\ arg \in ClassifyCalls \cup BoldCalls \cup ContextCalls
    /\ ret = NoReturn

CallClassify ==
    /\ arg.fn = "check_header_patterns"
    /\ ~ret.done
    /\ ret' = [done |-> TRUE, value |-> check_header_patterns(arg.line)]
    /\ UNCHANGED <<procVars, arg>>

CallBold ==
    /\ arg.fn = "determine_bold_header_level"
    /\ ~ret.done
    /\ ret' = [done |-> TRUE,
               value |-> determine_bold_header_level(arg.breadcrumb, arg.lines,
                                                     arg.current_index)]
    /\ UNCHANGED <<procVars, arg>>

CallContext ==
    /\ arg.fn = "determine_header_level_by_context"
    /\ ~ret.done
    /\ ret' = [done |-> TRUE,
               value |-> determine_header_level_by_context(
                             arg.breadcrumb, arg.pattern_type, arg.text)]
    /\ UNCHANGED <<procVars, arg>>

NextCalls == CallClassify \/ CallBold \/ CallContext

SpecCalls == InitCalls /\ [][NextCalls]_vars

-----------------------------------------------------------------------------
(* Properties                                                              *)

Running == pc \in {"loop", "done"}

\* The heading text of input line k (1-based)
TextOf(k) == check_header_patterns(lines[k]).text

\* A piece of out that is a metadata block: it ends in "\n\n", and no line
\* holds a line break.
IsBlock(piece) ==
    Len(piece) >= 2 /\ Slice(piece, Len(piece) - 1, Len(piece)) = "\n\n"

\* The block's field lines, without the "\n\n" that ends it
BlockFields(piece) == Slice(piece, 1, Len(piece) - 2)

\* The header line the last heading iteration appended
LastHeaderLine ==
    IF IsBlock(out[Len(out)]) THEN out[Len(out) - 1] ELSE out[Len(out)]

EndsWith(s, p) == Len(s) >= Len(p) /\ Slice(s, Len(s) - Len(p) + 1, Len(s)) = p

\* C1: right after an iteration that resolved a heading to level L, the
\* breadcrumb has exactly L elements and its last element is the heading's
\* text (for a heading without text, the text or the document title that
\* stands in for it at level 1).
C1_DepthEqualsLevel ==
    (Running /\ i > 0 /\ levels[i] > 0)
        => /\ Len(breadcrumb) = levels[i]
           /\ breadcrumb[Len(breadcrumb)] \in {TextOf(i), doc_title}

\* C2: process_markdown applied to its own output returns that output.
C2_Idempotent ==
    (pc = "done" /\ pass >= 2) => result = prev_result

\* C3: the returned string is not empty, ends with a line break and does
\* not end with two.
C3_OneTrailingNewline ==
    pc = "done"
        => /\ result # ""
           /\ EndsWith(result, "\n")
           /\ ~EndsWith(result, "\n\n")

\* C4: an input line that matches the markdown-heading pattern is emitted as
\* that very line, its level is its count of '#' whatever the breadcrumb
\* was, and the line is a line of the returned string.
C4_MarkdownPassthrough ==
    /\ (Running /\ i > 0 /\ HEADING_RE(lines[i]).ok)
           => /\ LastHeaderLine = lines[i]
              /\ levels[i] = Run(lines[i], 1, {"#"})
    /\ pc = "done"
           => LET returned == SplitLines(result)
                  emitted  == { returned[n] : n \in 1..Len(returned) }
              IN  \A k \in 1..Len(lines) :
                      HEADING_RE(lines[k]).ok => lines[k] \in emitted

\* C4's case: a level-3 markdown heading processed under a single ancestor,
\* and a markdown heading with two spaces after its '#'.
C4_Witness ==
    /\ pc = "done"
    /\ pass = 1
    /\ \E k \in 2..Len(lines) :
           /\ HEADING_RE(lines[k]).ok
           /\ levels[k] = 3
           /\ levels[k - 1] = 1
    /\ \E k \in 1..Len(lines) : lines[k] = "#  Two"

\* The fixed order of the patterns
KindOrder == << "markdown", "bold", "colon", "date", "numbered", "allcaps" >>

\* The line matches the kind's pattern and passes the kind's filter.
Satisfies(kind, line) ==
    IF kind = "markdown" THEN HEADING_RE(line).ok
    ELSE IF kind = "bold" THEN BOLD_HEADING_RE(line).ok
    ELSE IF kind = "colon"
    THEN COLON_HEADING_RE(line).ok
         /\ ColonAccepts(Strip(COLON_HEADING_RE(line).g1))
    ELSE IF kind = "date" THEN DATE_HEADING_RE(line).ok
    ELSE IF kind = "numbered"
    THEN NUMBERED_HEADING_RE(line).ok
         /\ NumberedAccepts(Strip(NUMBERED_HEADING_RE(line).g2))
    ELSE ALLCAPS_HEADING_RE(line).ok
         /\ AllcapsAccepts(Strip(ALLCAPS_HEADING_RE(line).g1))

Classified == arg.fn = "check_header_patterns" /\ ret.done

\* C5: check_header_patterns returns the first kind of the fixed order that
\* the line satisfies (pattern and filter), and no kind when it satisfies
\* none.
C5_FirstSatisfiedKind ==
    Classified
        => LET sat == { n \in 1..Len(KindOrder) :
                          Satisfies(KindOrder[n], arg.line) }
           IN  ret.value.kind =
                   IF sat = {} THEN "none" ELSE KindOrder[SetMin(sat)]

\* C5's case: a line that matches the colon pattern, fails the colon filter
\* and satisfies no later kind is not classified.
C5_Witness ==
    /\ Classified
    /\ COLON_HEADING_RE(arg.line).ok
    /\ ~Satisfies("colon", arg.line)
    /\ ret.value.kind = "none"

\* The level-1 headings with a text among the first n input lines
TitledTops(n) == { k \in 1..n : levels[k] = 1 /\ TextOf(k) # "" }

\* C6 as claimed: the doc title is the text of the FIRST level-1 heading
\* (with a text) processed so far, or file_stem when there is none yet.
C6_FirstLevelOneTitle ==
    Running
        => doc_title = IF TitledTops(i) = {} THEN file_stem
                       ELSE TextOf(SetMin(TitledTops(i)))

\* C6 as amended: the doc title is the text of the MOST RECENT level-1
\* heading with a text processed so far, or file_stem when there is none
\* yet; the block a heading injects carries that title.
C6_LastLevelOneTitle ==
    Running
        => LET title == IF TitledTops(i) = {} THEN file_stem
                        ELSE TextOf(SetMax(TitledTops(i)))
           IN  /\ doc_title = title
               /\ (i > 0 /\ levels[i] > 0 /\ IsBlock(out[Len(out)]))
                      => StartsWith(out[Len(out)],
                                    "[DocTitle: " \o title \o "]\n")

\* C6's case: a second level-1 heading with another text has been processed
\* and has injected its block.
C6_Witness ==
    /\ Running
    /\ i >= 2
    /\ levels[i] = 1
    /\ \E k \in TitledTops(i - 1) : TextOf(k) # TextOf(i) /\ TextOf(i) # ""
    /\ IsBlock(out[Len(out)])

\* C7: as long as no heading has resolved to level 1, the doc title is
\* file_stem and every block emitted carries [DocTitle: <file_stem>].
C7_FallbackTitle ==
    (Running /\ \A k \in 1..i : levels[k] # 1)
        => /\ doc_title = file_stem
           /\ \A q \in 1..Len(out) :
                  IsBlock(out[q])
                      => StartsWith(out[q], "[DocTitle: " \o file_stem \o "]\n")

\* C7's case: a whole document with two headings, none of level 1, each
\* with its block.
C7_Witness ==
    /\ pc = "done"
    /\ pass = 1
    /\ \A k \in 1..i : levels[k] # 1
    /\ Cardinality({ k \in 1..i : levels[k] > 1 }) >= 2
    /\ Cardinality({ q \in 1..Len(out) : IsBlock(out[q]) }) >= 2

\* What C8 calls a line of content: it starts with a list marker or with
\* whitespace (and is not blank).
StartsContent(line) ==
    \/ StartsWith(line, "- ")
    \/ StartsWith(line, "* ")
    \/ (IsSpace(At(line, 1)) /\ Strip(line) # "")

\* What C8 calls a bold or markdown-heading line
StartsSection(line) == BOLD_HEADING_RE(line).ok \/ HEADING_RE(line).ok

\* C8: a bold heading has level 1 under an empty breadcrumb; otherwise,
\* among the 9 lines after it, if the first line that is a line of content
\* or a bold or markdown heading is a line of content, its level is
\* min(depth + 1, 3), and else (a heading first, or neither in the window)
\* its level is 2.
C8_BoldLevel ==
    (arg.fn = "determine_bold_header_level" /\ ret.done)
        => LET ls     == arg.lines
               first  == arg.current_index + 2   \* 1-based place of line i+1
               last   == Min(arg.current_index + 10, Len(ls))
               marked == { n \in first..last :
                             StartsContent(ls[n]) \/ StartsSection(ls[n]) }
               depth  == Len(arg.breadcrumb)
           IN  ret.value =
                   IF depth = 0 THEN 1
                   ELSE IF marked # {} /\ StartsContent(ls[SetMin(marked)])
                        THEN Min(depth + 1, 3)
                        ELSE 2

\* C9: a line that matches the all-caps pattern is classified allcaps
\* exactly when none of its words is on the denylist and it has at most 6
\* words.
C9_WholeWordDenylist ==
    (Classified /\ ALLCAPS_HEADING_RE(arg.line).ok)
        => LET words == Split(arg.line)
           IN  (ret.value.kind = "allcaps")
                   <=> /\ \A n \in 1..Len(words) :
                              words[n] \notin common_non_headers
                       /\ Len(words) <= 6

\* C10: in the returned string an injected block is the heading line, the
\* field lines, exactly one blank line and then the next line.
C10_OneBlankLine ==
    pc = "done"
        => \A q \in 2..(Len(out) - 1) :
               (IsBlock(out[q]) /\ out[q + 1] # "")
                   => Contains(result,
                               out[q - 1] \o "\n" \o BlockFields(out[q])
                                   \o "\n\n" \o out[q + 1])

-----------------------------------------------------------------------------
(* Several calls of process_markdown in progress at once.  A call's state  *)
(* is its frame: its arguments and its locals.  main calls the function    *)
(* once per file; here the iterations of the calls interleave.             *)

NumDocs == 2       \* how many calls are in progress at once

\* The frame of a call at its entry
EnterFrame(text, path, stem) ==
    [md_text |-> text, rel_path |-> path, file_stem |-> stem,
     lines |-> SplitLines(text), out |-> << >>, breadcrumb |-> << >>,
     doc_title |-> stem, i |-> 0, pc |-> "loop", result |-> ""]

\* The frame after one iteration of the while loop
Iterate(f) ==
    LET line  == f.lines[f.i + 1]
        h     == check_header_patterns(line)
        level == ResolveLevel(h, f.breadcrumb, f.lines, f.i)
        title == NewDocTitle(level, h.text, f.doc_title)
        bc    == NewBreadcrumb(f.breadcrumb, level, h.text, title)
    IN  IF h.kind # "none"
        THEN [f EXCEPT !.doc_title = title,
                       !.breadcrumb = bc,
                       !.out = f.out \o HeadingOutput(line, h, level, title,
                                           f.rel_path, bc,
                                           AlreadyInjected(f.lines, f.i)),
                       !.i = f.i + 1]
        ELSE [f EXCEPT !.out = f.out \o PlainOutput(line), !.i = f.i + 1]

\* The frame after the return statement
Finish(f) == [f EXCEPT !.result = ReturnValue(f.out), !.pc = "done"]

\* A call run on its own from frame f for n iterations
RECURSIVE RunFrame(_, _)
RunFrame(f, n) == IF n = 0 THEN f ELSE RunFrame(Iterate(f), n - 1)

\* process_markdown as a function of its arguments: every line iterated
\* over, then the return
process_markdown(text, path, stem) ==
    Finish(RunFrame(EnterFrame(text, path, stem),
                    Len(SplitLines(text)))).result

\* The documents processed side by side
ParDocs ==
    { "", "# Top\n**Bold**\n- item\n", "Meeting:\n### Deep", "# \n2024 03 15\n",
      "#  Two\nPROJECT PLANS\n1. Intro", "- item\n\n# Top" }

StemOf(d) == "doc" \o At(DigitStr, d + 1)

\* The locals a step of call d works on, with the breadcrumb kept in one
\* place for all the calls (that of call 1) instead of in each frame
FrameOfShared(fs, d) == [fs[d] EXCEPT !.breadcrumb = fs[1].breadcrumb]

\* The locals a step of call d works on: those of its own frame
FrameOf(fs, d) == fs[d]

InitPar ==
    /\ Idle
    /\ arg = NoCall
    /\ ret = NoReturn
    /\ \E docs \in [1..NumDocs -> ParDocs] :
           frames = [d \in 1..NumDocs |->
                        EnterFrame(docs[d], StemOf(d) \o ".md", StemOf(d))]

\* One iteration of call d
ParStep ==
    \E d \in DOMAIN frames :
        /\ frames[d].pc = "loop"
        /\ frames[d].i < Len(frames[d].lines)
        /\ frames' = [frames EXCEPT ![d] = Iterate(FrameOf(frames, d))]
        /\ UNCHANGED <<md_text, rel_path, file_stem, lines, out, breadcrumb,
                       doc_title, i, pc, result, levels, pass, prev_result,
                       arg, ret>>

\* The return of call d
ParReturn ==
    \E d \in DOMAIN frames :
        /\ frames[d].pc = "loop"
        /\ frames[d].i >= Len(frames[d].lines)
        /\ frames' = [frames EXCEPT ![d] = Finish(FrameOf(frames, d))]
        /\ UNCHANGED <<md_text, rel_path, file_stem, lines, out, breadcrumb,
                       doc_title, i, pc, result, levels, pass, prev_result,
                       arg, ret>>

NextPar == ParStep \/ ParReturn

SpecPar == InitPar /\ [][NextPar]_vars

C12_ContextLevelTable ==
    (arg.fn = "determine_header_level_by_context" /\ ret.done)
        => LET d == Len(arg.breadcrumb)
               k == arg.pattern_type
           IN  /\ k \in {"date", "allcaps"}
                      => ret.value = (IF d = 0 THEN 1 ELSE 2)
               /\ k = "colon"
                      => ret.value = (IF d = 0 THEN 2 ELSE Min(d + 1, 3))
               /\ k = "numbered"
                      => ret.value = (IF d = 0 THEN 2 ELSE Min(d + 1, 4))

\* C12's case: a numbered heading under four titles is capped at level 4.
C12_Witness ==
    /\ arg.fn = "determine_header_level_by_context"
    /\ ret.done
    /\ arg.pattern_type = "numbered"
    /\ Len(arg.breadcrumb) = 4
    /\ ret.value = 4

\* The step is an iteration of the loop that resolved a heading.
HeadingProcessed == pc = "loop" /\ i' = i + 1 /\ levels'[i'] > 0

\* The step is an iteration of the loop on a line that is no heading.
PlainProcessed == pc = "loop" /\ i' = i + 1 /\ levels'[i'] = 0

\* C13: an iteration that resolves a heading to level 1 leaves the
\* breadcrumb as the one-element sequence of the heading's text and makes
\* that text the doc title; for a heading without text it leaves the
\* breadcrumb as the one-element sequence of the doc title, and the doc
\* title as it was.
C13_LevelOneReset ==
    [][ (HeadingProcessed /\ levels'[i'] = 1)
            => LET text == TextOf(i')
               IN  IF text # ""
                   THEN breadcrumb' = << text >> /\ doc_title' = text
                   ELSE breadcrumb' = << doc_title >> /\ doc_title' = doc_title
      ]_vars

\* C13's case: a level-1 heading processed when the breadcrumb held two
\* titles (a level-1 and a level-2 heading came before it).
C13_Witness ==
    /\ Running
    /\ i >= 3
    /\ levels[i] = 1
    /\ levels[i - 1] = 2
    /\ levels[i - 2] = 1
    /\ breadcrumb = << TextOf(i) >>
    /\ doc_title = TextOf(i)

\* C14: an iteration that resolves a heading to a level L >= 2 keeps the
\* first min(len(S), L - 1) elements of the previous breadcrumb S as they
\* were and in their order, puts the heading's text after them, and leaves
\* the doc title as it was.
C14_AncestorsKept ==
    [][ (HeadingProcessed /\ levels'[i'] >= 2)
            => LET L    == levels'[i']
                   kept == Min(Len(breadcrumb), L - 1)
               IN  /\ Len(breadcrumb') = kept + 1
                   /\ \A k \in 1..kept : breadcrumb'[k] = breadcrumb[k]
                   /\ breadcrumb'[kept + 1] = TextOf(i')
                   /\ doc_title' = doc_title
      ]_vars

\* C14's case: a level-2 heading processed when the breadcrumb already held
\* a level-1 and another level-2 heading: the level-1 ancestor stays, the
\* sibling is replaced.
C14_Witness ==
    /\ Running
    /\ i >= 3
    /\ levels[i] = 2
    /\ levels[i - 1] = 2
    /\ levels[i - 2] = 1
    /\ TextOf(i - 2) # ""
    /\ TextOf(i - 1) # TextOf(i)
    /\ breadcrumb = << TextOf(i - 2), TextOf(i) >>

\* The first line at or after position k (1-based) that is not blank, as it
\* stands in the input; "" when there is none.
RECURSIVE NextNonBlankLine(_, _)
NextNonBlankLine(ls, k) ==
    IF k > Len(ls) THEN ""
    ELSE IF Strip(ls[k]) # "" THEN ls[k]
    ELSE NextNonBlankLine(ls, k + 1)

\* What a heading iteration that is guarded or not must have done: one
\* header line appended, a block after it exactly when not guarded, and the
\* breadcrumb and the doc title updated by the heading in both cases.
HeadingEmitted(guarded) ==
    LET n    == Len(out)
        text == TextOf(i')
    IN  /\ Len(out') = n + (IF guarded THEN 1 ELSE 2)
        /\ SubSeq(out', 1, n) = out
        /\ StartsWith(out'[n + 1], "#")
        /\ ~IsBlock(out'[n + 1])
        /\ ~guarded => IsBlock(out'[n + 2])
        /\ breadcrumb'[Len(breadcrumb')] =
               (IF levels'[i'] = 1 /\ text = "" THEN doc_title ELSE text)
        /\ (levels'[i'] = 1 /\ text # "") => doc_title' = text

\* C15 as stated: a heading iteration appends one header line, and a block
\* after it exactly when the next non-blank input line does not begin with
\* "[DocTitle:".
C15_GuardOnLineStart ==
    [][ HeadingProcessed
            => HeadingEmitted(StartsWith(NextNonBlankLine(lines, i' + 1),
                                         "[DocTitle:"))
      ]_vars

\* C15: a heading iteration appends one header line, and a block after it
\* exactly when the next non-blank input line, with the whitespace around it
\* removed, does not begin with "[DocTitle:"; the breadcrumb and the doc
\* title are updated by the heading whether the block is appended or not.
C15_GuardOnStrippedLine ==
    [][ HeadingProcessed
            => HeadingEmitted(StartsWith(Strip(NextNonBlankLine(lines, i' + 1)),
                                         "[DocTitle:"))
      ]_vars

\* C15's case: a heading followed, after a blank line, by an indented
\* "[DocTitle:" line; the heading's header line is the last piece of out and
\* the breadcrumb ends in the heading's text.
C15_Witness ==
    /\ Running
    /\ i > 0
    /\ i + 1 < Len(lines)
    /\ levels[i] > 0
    /\ lines[i + 1] = ""
    /\ NextNonBlankLine(lines, i + 1) = " [DocTitle: T]"
    /\ out[Len(out)] = lines[i]
    /\ breadcrumb = << TextOf(i) >>

\* The pieces of out that are no metadata block, in their order
Emitted == SelectSeq(out, LAMBDA piece : ~IsBlock(piece))

\* C16: an iteration on a line that is not classified appends the line as
\* it is and leaves the breadcrumb and the doc title as they were; and out
\* without its metadata blocks holds one piece for every line iterated over,
\* in the order of the lines, the piece of an unclassified line being the
\* line.
C16_UnclassifiedPassthrough ==
    /\ [][ PlainProcessed
               => /\ out' = Append(out, lines[i'])
                  /\ breadcrumb' = breadcrumb
                  /\ doc_title' = doc_title
         ]_vars
    /\ [](Running
            => /\ Len(Emitted) = i
               /\ \A k \in 1..i : levels[k] = 0 => Emitted[k] = lines[k])

\* C16's case: a document with a block injected in the middle of it, and
\* an unclassified blank line and an unclassified text line passed through
\* around it.
C16_Witness ==
    /\ Running
    /\ i = 3
    /\ levels = << 0, 1, 0 >>
    /\ lines[1] = ""
    /\ lines[3] # ""
    /\ Len(out) = 4
    /\ IsBlock(out[3])
    /\ out[4] = lines[3]
    /\ breadcrumb = << TextOf(2) >>

-----------------------------------------------------------------------------
(* process_markdown on documents long enough for the lookahead of a bold   *)
(* heading to end before the document does                                 *)

\* The lines before the bold heading: they leave the breadcrumb empty, one
\* deep or two deep, or as deep as the colon, the numbered and the markdown
\* kind can make it.
Prefixes ==
    { << >>,
      << "# Top" >>,
      << "# Top", "Meeting:" >>,
      << "# Top", "Meeting:", "1. Intro", "Agenda:" >>,
      << "# Top", "Meeting:", "1. Intro", "2. Scope", "3. Plans" >>,
      << "# Top", "## Two", "### Three", "#### Four", "##### Five",
         "###### Six" >> }

\* A bold heading, up to MaxFill lines of one filler, and a line that ends
\* the lookahead or not
LookaheadDocs ==
    { Join(p \o << "**Bold**" >> \o Repeat(f, n) \o << m >>, "\n") :
        p \in Prefixes, f \in Fillers, n \in 0..MaxFill, m \in Markers }

InitLookahead ==
    /\ file_stem = "notes"
    /\ rel_path = "notes.md"
    /\ \E text \in LookaheadDocs : Enter(text)
    /\ pass = 1
    /\ prev_result = ""
    /\ arg = NoCall
    /\ ret = NoReturn
    /\ frames = << >>

NextLookahead == HeadingStep \/ PlainStep \/ Return

SpecLookahead == InitLookahead /\ [][NextLookahead]_vars

\* The step is an iteration of the loop.
Iteration == pc = "loop" /\ pc' = "loop"

\* C17: every iteration of the loop, whether it looks ahead or not, leaves
\* the line sequence as it was and moves the cursor by exactly one, and it
\* classifies the line at the cursor, so that the k-th iteration classifies
\* line k; and the level of a bold heading is the level resolved from the
\* lines up to the ninth after the heading.
C17_ReadOnlyLookahead ==
    [][ Iteration
            => /\ lines' = lines
               /\ i' = i + 1
               /\ Len(levels') = i'
               /\ SubSeq(levels', 1, i) = levels
               /\ (levels'[i'] > 0) = (check_header_patterns(lines[i']).kind # "none")
               /\ check_header_patterns(lines[i']).kind = "bold"
                      => levels'[i'] =
                             determine_bold_header_level(
                                 breadcrumb, TakeFirst(lines, i + 10), i)
      ]_vars

\* C17's case: a bold heading under two headings, nine lines of text after
\* it and a list item as the tenth: the list item is beyond the lookahead,
\* the heading resolves to level 2, and the cursor is one past the heading.
C17_Witness ==
    /\ Running
    /\ i = 3
    /\ Len(lines) = 13
    /\ lines[3] = "**Bold**"
    /\ lines[4] = "text"
    /\ lines[13] = "- item"
    /\ levels = << 1, 2, 2 >>
    /\ Len(breadcrumb) = 2

-----------------------------------------------------------------------------
(* The block and the breadcrumb                                            *)

\* The last heading iteration appended a block.
BlockInjected ==
    Running /\ i > 0 /\ levels[i] > 0 /\ IsBlock(out[Len(out)])

\* The first three fields of a block of the current doc title, path and
\* breadcrumb, each with the line break after it
FieldsOfState ==
    "[DocTitle: " \o doc_title \o "]\n"
    \o "[Path: " \o rel_path \o "]\n"
    \o "[Section: " \o Join(breadcrumb, " > ") \o "]\n"

\* C18 as stated: the block a heading injects carries the doc title and the
\* breadcrumb as they are after the heading's update, the breadcrumb joined
\* by " > "; the breadcrumb's last element is the heading's text; and the
\* block of a level-1 heading with a text carries that text as DocTitle.
C18_SectionEndsInHeadingText ==
    BlockInjected
        => /\ StartsWith(out[Len(out)], FieldsOfState)
           /\ breadcrumb[Len(breadcrumb)] = TextOf(i)
           /\ (levels[i] = 1 /\ TextOf(i) # "") => doc_title = TextOf(i)

\* C18: the block a heading injects carries the doc title and the
\* breadcrumb as they are after the heading's update, the breadcrumb joined
\* by " > "; the breadcrumb's last element is the heading's text, or the doc
\* title for a level-1 heading without text; and the block of a level-1
\* heading with a text carries that text as DocTitle.
C18_UpdateBeforeEmit ==
    BlockInjected
        => /\ StartsWith(out[Len(out)], FieldsOfState)
           /\ breadcrumb[Len(breadcrumb)] =
                  (IF levels[i] = 1 /\ TextOf(i) = "" THEN doc_title ELSE TextOf(i))
           /\ (levels[i] = 1 /\ TextOf(i) # "") => doc_title = TextOf(i)

\* C18's case: a level-1 heading without text, then a level-2 heading that
\* has injected its block: the Section field is the file stem and the
\* heading's text, joined by " > ".
C18_Witness ==
    /\ BlockInjected
    /\ i = 2
    /\ levels = << 1, 2 >>
    /\ TextOf(1) = ""
    /\ TextOf(2) # ""
    /\ breadcrumb = << file_stem, TextOf(2) >>
    /\ StartsWith(out[Len(out)], FieldsOfState)

\* No heading among the first n lines
NoHeadingBefore(n) == \A k \in 1..(n - 1) : levels[k] = 0

\* C19: the breadcrumb is empty exactly as long as no heading has been
\* processed; a date, all-caps or bold heading that resolved to level 1 is
\* the first heading of the document; and a block is only ever built from a
\* breadcrumb that is not empty.
C19_BreadcrumbNeverEmptied ==
    Running
        => /\ (breadcrumb = << >>) = NoHeadingBefore(i + 1)
           /\ (/\ i > 0
               /\ levels[i] = 1
               /\ check_header_patterns(lines[i]).kind \in {"date", "allcaps", "bold"})
                  => NoHeadingBefore(i)
           /\ BlockInjected => breadcrumb # << >>

\* C19's case: a date line that is the first heading, after a line that is
\* none, has resolved to level 1 and injected its block.
C19_Witness ==
    /\ BlockInjected
    /\ i = 2
    /\ levels = << 0, 1 >>
    /\ check_header_patterns(lines[2]).kind = "date"
    /\ breadcrumb = << TextOf(2) >>

\* The level of the most recent heading among the first n lines, 0 when
\* there is none
RECURSIVE LastLevel(_)
LastLevel(n) ==
    IF n = 0 THEN 0
    ELSE IF levels[n] > 0 THEN levels[n]
    ELSE LastLevel(n - 1)

\* The highest level a heading of a kind resolves to
KindCap(kind) ==
    CASE kind = "markdown" -> 6
      [] kind = "numbered" -> 4
      [] kind \in {"colon", "bold"} -> 3
      [] kind \in {"date", "allcaps"} -> 2
      [] OTHER -> 0

\* C20: an iteration that resolves a heading to a level L >= 2 on a
\* breadcrumb of depth d leaves a breadcrumb of depth min(L, d + 1); the
\* breadcrumb is never deeper than the level of the most recent heading,
\* nor than 6; and the level of the line just iterated over is 0 for a line
\* that is no heading and else between 1 and the cap of its kind (6, 4 for
\* numbered, 3 for colon and bold, 2 for date and all-caps).
C20_DepthBoundedByLevel ==
    /\ [][ (HeadingProcessed /\ levels'[i'] >= 2)
               => Len(breadcrumb') = Min(levels'[i'], Len(breadcrumb) + 1)
         ]_vars
    /\ [](Running
            => /\ Len(breadcrumb) <= LastLevel(i)
               /\ Len(breadcrumb) <= 6
               /\ i > 0 => LET kind == check_header_patterns(lines[i]).kind
                           IN  IF kind = "none" THEN levels[i] = 0
                               ELSE levels[i] \in 1..KindCap(kind))

\* C20's case: a numbered heading on a breadcrumb four deep has resolved to
\* level 4, its cap, and left the breadcrumb four deep.
C20_Witness ==
    /\ Running
    /\ i = 5
    /\ levels = << 1, 2, 3, 4, 4 >>
    /\ check_header_patterns(lines[5]).kind = "numbered"
    /\ Len(breadcrumb) = 4
    /\ breadcrumb[4] = TextOf(5)

=============================================================================
